---- MODULE Spec2Model ----
(***************************************************************************)
(* A model of server.js: the Express application with its four routes      *)
(* (GET /api/profiles, POST /api/register, POST /api/login,                *)
(* POST /api/add-profile), the two Mongoose collections they use and the   *)
(* multer file filter.                                                     *)
(*                                                                         *)
(* Text is a sequence of one-character strings, so that the regular        *)
(* expressions, toLowerCase, the template string of getImageUrl and the    *)
(* base64 encoding are computed character by character.  A handler runs    *)
(* without interruption up to its next `await`; each `await` of a storage  *)
(* call is a point where other requests may run.  The store performs a     *)
(* query atomically; the model takes the step in which the awaited call    *)
(* returns as the instant the store performs it.                           *)
(***************************************************************************)
EXTENDS Integers, Sequences, FiniteSets, TLC

VARIABLES users, profiles, nextId, tasks, arrived, last, accounts, created

vars == <<users, profiles, nextId, tasks, arrived, last, accounts, created>>

(***************************************************************************)
(* Bounds of the model.                                                    *)
(***************************************************************************)
MaxRequests == 3
MaxInFlight == 2

(***************************************************************************)
(* Text helpers.                                                           *)
(***************************************************************************)
\* A request field that the client did not send (JavaScript's undefined).
Undefined == <<"#undefined">>

\* JavaScript truthiness of a body field: undefined and "" are falsy.
Truthy(v) == v # Undefined /\ v # <<>>

Rep(c, n) == [i \in 1..n |-> c]

\* s contains sub as a contiguous substring
Contains(s, sub) ==
    \E i \in 1..(Len(s) - Len(sub) + 1) : SubSeq(s, i, i + Len(sub) - 1) = sub

LowerOf(c) ==
    CASE c = "A" -> "a" [] c = "B" -> "b" [] c = "C" -> "c" [] c = "D" -> "d"
      [] c = "E" -> "e" [] c = "F" -> "f" [] c = "G" -> "g" [] c = "H" -> "h"
      [] c = "I" -> "i" [] c = "J" -> "j" [] c = "K" -> "k" [] c = "L" -> "l"
      [] c = "M" -> "m" [] c = "N" -> "n" [] c = "O" -> "o" [] c = "P" -> "p"
      [] c = "Q" -> "q" [] c = "R" -> "r" [] c = "S" -> "s" [] c = "T" -> "t"
      [] c = "U" -> "u" [] c = "V" -> "v" [] c = "W" -> "w" [] c = "X" -> "x"
      [] c = "Y" -> "y" [] c = "Z" -> "z" [] OTHER -> c

\* String.prototype.toLowerCase
toLowerCase(s) == [i \in 1..Len(s) |-> LowerOf(s[i])]

(***************************************************************************)
(* Register: /^[^\s@]+@[^\s@]+\.[^\s@]+$/                                  *)
(***************************************************************************)
\* [^\s@]
NotSpaceNorAt(c) == c \notin {" ", "@"}

\* [^\s@]+ matches exactly s[from..to]
PlusNotSpaceNorAt(s, from, to) ==
    from <= to /\ \A k \in from..to : NotSpaceNorAt(s[k])

\* emailRegex.test(email)
emailRegexTest(email) ==
    \E i \in 1..Len(email), j \in 1..Len(email) :
        /\ i < j
        /\ email[i] = "@"
        /\ email[j] = "."
        /\ PlusNotSpaceNorAt(email, 1, i - 1)
        /\ PlusNotSpaceNorAt(email, i + 1, j - 1)
        /\ PlusNotSpaceNorAt(email, j + 1, Len(email))

(***************************************************************************)
(* bcryptjs.  A digest is the string "$2a$" cost "$" salt hash; the hash   *)
(* is a function of the cost, the salt and the Blowfish key, which the     *)
(* model keeps symbolically: two digests are equal exactly when cost, salt *)
(* and key are.  The key schedule reads the password followed by a NUL     *)
(* byte cyclically into the 18 32-bit words of the P-array, so it reads    *)
(* 72 bytes and no byte of the password after the 72nd.                    *)
(***************************************************************************)
BlowfishKeyBytes == 18 * 4

NUL == "\\0"

\* the bytes the key schedule reads from password s
BlowfishKey(s) ==
    LET k == s \o <<NUL>>
    IN  [i \in 1..BlowfishKeyBytes |-> k[((i - 1) % Len(k)) + 1]]

\* the salts bcrypt.genSaltSync may draw
Salts == {"salt1", "salt2"}

\* the digest of s under a given salt, cost factor 8
bcryptHashWithSalt(s, salt) == <<"$2a$", "08", salt, BlowfishKey(s)>>

\* bcrypt.compareSync(s, hash): hashes s with the salt of hash and compares
compareSync(s, hash) == bcryptHashWithSalt(s, hash[3]) = hash


(***************************************************************************)
(* Values.  A document field that holds null is Null where the field is    *)
(* text and NullBuffer where it is a Buffer; a Buffer is a record holding  *)
(* its bytes (numbers 0..255).                                             *)
(***************************************************************************)
Null == <<"#null">>

NullBuffer == [null |-> TRUE]

Buffer(bytes) == [bytes |-> bytes]

\* what findOne resolves to when no document matches (null)
NullDoc == [null |-> TRUE]

\* a task that has constructed no document yet
NoDoc == [none |-> TRUE]

\* The two success messages of the source are Thai text ("registration
\* succeeded", "login succeeded"); the model names them in ASCII.
RegisterSuccessMessage == "register: success message (Thai)"

LoginSuccessMessage == "login: success message (Thai)"

\* the response of a server that has answered nothing yet
NoResponse ==
    [rid |-> 0, op |-> "none", body |-> [none |-> TRUE], status |-> 0,
     type |-> "none", out |-> [none |-> TRUE], io |-> 0]

\* res.status(status).send(out): the response to the request of task t
Response(rid, op, body, status, type, out, io) ==
    [rid |-> rid, op |-> op, body |-> body, status |-> status,
     type |-> type, out |-> out, io |-> io]

(***************************************************************************)
(* The User collection.                                                    *)
(***************************************************************************)
\* User.findOne({ email }): the first stored document with that email
findOne(coll, email) ==
    IF \E i \in 1..Len(coll) : coll[i].email = email
    THEN coll[CHOOSE i \in 1..Len(coll) :
                  /\ coll[i].email = email
                  /\ \A j \in 1..(i - 1) : coll[j].email # email]
    ELSE NullDoc

\* A store without the unique index on email.
NoUniqueIndex(coll, doc) == FALSE

\* email: { unique: true }: the insert of doc fails with E11000 (duplicate key)
DuplicateKey(coll, doc) == \E i \in 1..Len(coll) : coll[i].email = doc.email

\* A variant that stores the submitted password itself.
NewUserPlaintext(id, body, salt) ==
    [_id |-> id, first_name |-> body.first_name, last_name |-> body.last_name,
     email |-> body.email, password |-> body.password]

\* bcrypt.hashSync(password, 8); new User({ first_name, last_name, email, password: hashedPassword })
NewUser(id, body, salt) ==
    [_id |-> id, first_name |-> body.first_name, last_name |-> body.last_name,
     email |-> body.email, password |-> bcryptHashWithSalt(body.password, salt)]

(***************************************************************************)
(* POST /api/register                                                      *)
(***************************************************************************)
\* A variant of the validation that checks presence only.
RegisterPresenceOnly(body) ==
    IF ~(Truthy(body.first_name) /\ Truthy(body.last_name)
         /\ Truthy(body.email) /\ Truthy(body.password))
    THEN "Please provide all required fields."
    ELSE "ok"

\* the two checks before the try block: "ok", or the message of the 400
RegisterValidation(body) ==
    IF ~(Truthy(body.first_name) /\ Truthy(body.last_name)
         /\ Truthy(body.email) /\ Truthy(body.password))
    THEN "Please provide all required fields."
    ELSE IF ~emailRegexTest(body.email)
         THEN "Invalid email format."
         ELSE "ok"

CanArrive == arrived < MaxRequests /\ Cardinality(tasks) < MaxInFlight

\* The handler up to `await User.findOne({ email })`.
Register(body) ==
    /\ CanArrive
    /\ arrived' = arrived + 1
    /\ IF RegisterValidation(body) # "ok"
       THEN /\ last' = Response(arrived + 1, "register", body, 400, "json",
                                [message |-> RegisterValidation(body)], 0)
            /\ tasks' = tasks
       ELSE /\ tasks' = tasks \cup
                  {[rid |-> arrived + 1, op |-> "register", pc |-> "findOne",
                    body |-> body, doc |-> NoDoc, io |-> 1]}
            /\ last' = last
    /\ UNCHANGED <<users, profiles, nextId, accounts, created>>

\* A variant of the pre-check that never finds a user.
ExistingUserNever(coll, email) == NullDoc

\* const existingUser = await User.findOne({ email })
ExistingUser(coll, email) == findOne(coll, email)

\* findOne returns: 400 if a user exists, else hash, construct, `await newUser.save()`.
RegisterFindOneReturns(t) ==
    /\ t \in tasks /\ t.op = "register" /\ t.pc = "findOne"
    /\ IF ExistingUser(users, t.body.email) # NullDoc
       THEN /\ last' = Response(t.rid, "register", t.body, 400, "json",
                                [message |-> "Email already exists"], t.io)
            /\ tasks' = tasks \ {t}
            /\ nextId' = nextId
       ELSE /\ \E salt \in Salts :
                  tasks' = (tasks \ {t}) \cup
                      {[t EXCEPT !.pc = "save", !.io = t.io + 1,
                                 !.doc = NewUser(nextId, t.body, salt)]}
            /\ nextId' = nextId + 1
            /\ last' = last
    /\ UNCHANGED <<users, profiles, arrived, accounts, created>>

\* save returns: the insert succeeded (201) or threw the duplicate-key error (catch: 500).
RegisterSaveReturns(t) ==
    /\ t \in tasks /\ t.op = "register" /\ t.pc = "save"
    /\ tasks' = tasks \ {t}
    /\ IF DuplicateKey(users, t.doc)
       THEN /\ last' = Response(t.rid, "register", t.body, 500, "json",
                                [message |-> "Error registering user",
                                 error |-> "E11000 duplicate key error"], t.io)
            /\ users' = users
            /\ accounts' = accounts
       ELSE /\ users' = Append(users, t.doc)
            /\ last' = Response(t.rid, "register", t.body, 201, "json",
                                [message |-> RegisterSuccessMessage], t.io)
            /\ accounts' = accounts \cup
                  {[email |-> t.body.email, password |-> t.body.password,
                    id |-> t.doc._id]}
    /\ UNCHANGED <<profiles, nextId, arrived, created>>

(***************************************************************************)
(* POST /api/login                                                         *)
(***************************************************************************)
\* The handler up to `await User.findOne({ email })`.
Login(body) ==
    /\ CanArrive
    /\ arrived' = arrived + 1
    /\ IF ~(Truthy(body.email) /\ Truthy(body.password))
       THEN /\ last' = Response(arrived + 1, "login", body, 400, "json",
                                [message |-> "Please provide both email and password."], 0)
            /\ tasks' = tasks
       ELSE /\ tasks' = tasks \cup
                  {[rid |-> arrived + 1, op |-> "login", pc |-> "findOne",
                    body |-> body, doc |-> NoDoc, io |-> 1]}
            /\ last' = last
    /\ UNCHANGED <<users, profiles, nextId, accounts, created>>

\* findOne returns: 404, 401 or 200.
LoginFindOneReturns(t) ==
    /\ t \in tasks /\ t.op = "login" /\ t.pc = "findOne"
    /\ tasks' = tasks \ {t}
    /\ LET user == findOne(users, t.body.email)
       IN  last' =
             IF user = NullDoc
             THEN Response(t.rid, "login", t.body, 404, "json",
                           [message |-> "User not found"], t.io)
             ELSE IF ~compareSync(t.body.password, user.password)
             THEN Response(t.rid, "login", t.body, 401, "json",
                           [message |-> "Invalid Password!"], t.io)
             ELSE Response(t.rid, "login", t.body, 200, "json",
                           [id |-> user._id, email |-> user.email,
                            message |-> LoginSuccessMessage, success |-> TRUE], t.io)
    /\ UNCHANGED <<users, profiles, nextId, arrived, accounts, created>>


(***************************************************************************)
(* multer: upload.fileFilter                                               *)
(***************************************************************************)
\* /jpeg|jpg|png|gif/.test(s): the pattern has no anchors, so it matches
\* wherever one of the four words occurs in s
filetypesTest(s) ==
    \/ Contains(s, <<"j", "p", "e", "g">>)
    \/ Contains(s, <<"j", "p", "g">>)
    \/ Contains(s, <<"p", "n", "g">>)
    \/ Contains(s, <<"g", "i", "f">>)

\* cb(null, true) (TRUE) or cb(new Error(...)) (FALSE)
fileFilter(file) ==
    LET mimetype == filetypesTest(file.mimetype)
        extname == filetypesTest(toLowerCase(file.originalname))
    IN  mimetype /\ extname

\* req.files[name] when the request carried no part of that name
NoFile == [none |-> TRUE]

\* req.files of a request that is not multipart: multer passes it on untouched
UndefinedFiles == [undefined |-> TRUE]

\* the file parts of a request, in the two names upload.fields admits
FileParts(body) ==
    IF body.files = UndefinedFiles THEN {}
    ELSE {f \in {body.files.profileImage, body.files.coverImage} : f # NoFile}

(***************************************************************************)
(* Buffer.prototype.toString('base64')                                     *)
(***************************************************************************)
Base64Alphabet ==
    <<"A", "B", "C", "D", "E", "F", "G", "H", "I", "J", "K", "L", "M",
      "N", "O", "P", "Q", "R", "S", "T", "U", "V", "W", "X", "Y", "Z",
      "a", "b", "c", "d", "e", "f", "g", "h", "i", "j", "k", "l", "m",
      "n", "o", "p", "q", "r", "s", "t", "u", "v", "w", "x", "y", "z",
      "0", "1", "2", "3", "4", "5", "6", "7", "8", "9", "+", "/">>

Sextet(n) == Base64Alphabet[n + 1]

RECURSIVE toBase64(_)
toBase64(b) ==
    IF Len(b) = 0 THEN <<>>
    ELSE IF Len(b) = 1
    THEN <<Sextet(b[1] \div 4), Sextet((b[1] % 4) * 16), "=", "=">>
    ELSE IF Len(b) = 2
    THEN <<Sextet(b[1] \div 4), Sextet((b[1] % 4) * 16 + b[2] \div 16),
           Sextet((b[2] % 16) * 4), "=">>
    ELSE <<Sextet(b[1] \div 4), Sextet((b[1] % 4) * 16 + b[2] \div 16),
           Sextet((b[2] % 16) * 4 + b[3] \div 64), Sextet(b[3] % 64)>>
         \o toBase64(SubSeq(b, 4, Len(b)))

(***************************************************************************)
(* getImageUrl and GET /api/profiles                                       *)
(***************************************************************************)
DataColon == <<"d", "a", "t", "a", ":">>

Base64Comma == <<";", "b", "a", "s", "e", "6", "4", ",">>

\* A variant that answers a placeholder when there is no image.
getImageUrlPlaceholder(buffer, type) ==
    IF buffer = NullBuffer \/ type = Null \/ type = <<>>
    THEN DataColon \o Base64Comma
    ELSE DataColon \o type \o Base64Comma \o toBase64(buffer.bytes)

\* if (!buffer || !type) return null; return `data:${type};base64,${buffer.toString('base64')}`
getImageUrl(buffer, type) ==
    IF buffer = NullBuffer \/ type = Null \/ type = <<>>
    THEN Null
    ELSE DataColon \o type \o Base64Comma \o toBase64(buffer.bytes)

\* { ...profile._doc, profileImage: getImageUrl(...), coverImage: getImageUrl(...) }
WithImages(profile) ==
    [_id |-> profile._id, fullName |-> profile.fullName, mobile |-> profile.mobile,
     email |-> profile.email, location |-> profile.location, bio |-> profile.bio,
     profileImageType |-> profile.profileImageType,
     coverImageType |-> profile.coverImageType,
     profileImage |-> getImageUrl(profile.profileImage, profile.profileImageType),
     coverImage |-> getImageUrl(profile.coverImage, profile.coverImageType)]

\* The handler up to `await Profile.find()`.
ListProfiles ==
    /\ CanArrive
    /\ arrived' = arrived + 1
    /\ tasks' = tasks \cup
           {[rid |-> arrived + 1, op |-> "list", pc |-> "find",
             body |-> [none |-> TRUE], doc |-> NoDoc, io |-> 1]}
    /\ UNCHANGED <<users, profiles, nextId, last, accounts, created>>

\* find returns: 200 with profiles.map(...)
ListFindReturns(t) ==
    /\ t \in tasks /\ t.op = "list" /\ t.pc = "find"
    /\ tasks' = tasks \ {t}
    /\ last' = Response(t.rid, "list", t.body, 200, "json",
                        [array |-> [i \in 1..Len(profiles) |-> WithImages(profiles[i])]],
                        t.io)
    /\ UNCHANGED <<users, profiles, nextId, arrived, accounts, created>>

(***************************************************************************)
(* POST /api/add-profile                                                   *)
(***************************************************************************)
\* new Profile({ fullName, ..., profileImage: req.files['profileImage'] ? ... : null, ... })
NewProfile(id, body) ==
    [_id |-> id, fullName |-> body.fullName, mobile |-> body.mobile,
     email |-> body.email, location |-> body.location, bio |-> body.bio,
     profileImage |-> IF body.files.profileImage # NoFile
                      THEN Buffer(body.files.profileImage.buffer) ELSE NullBuffer,
     profileImageType |-> IF body.files.profileImage # NoFile
                          THEN body.files.profileImage.mimetype ELSE Null,
     coverImage |-> IF body.files.coverImage # NoFile
                    THEN Buffer(body.files.coverImage.buffer) ELSE NullBuffer,
     coverImageType |-> IF body.files.coverImage # NoFile
                        THEN body.files.coverImage.mimetype ELSE Null]

\* if (!fullName || !mobile || !email || !location || !bio)
AddProfileFieldsMissing(body) ==
    ~(Truthy(body.fullName) /\ Truthy(body.mobile) /\ Truthy(body.email)
      /\ Truthy(body.location) /\ Truthy(body.bio))

\* The upload.fields middleware, then the handler up to `await newProfile.save()`.
\* An error of the file filter is passed to next(err); the app registers no
\* error middleware, so Express's default handler answers it: status 500
\* (the Error carries no status) and an HTML body.  A request that is not
\* multipart reaches the handler with req.files undefined, and
\* req.files['profileImage'] throws a TypeError inside the try block.
AddProfile(body) ==
    /\ CanArrive
    /\ arrived' = arrived + 1
    /\ IF \E f \in FileParts(body) : ~fileFilter(f)
       THEN /\ last' = Response(arrived + 1, "add-profile", body, 500, "html",
                                [html |-> "Error: File upload only supports the following filetypes - jpeg, jpg, png, gif"], 0)
            /\ UNCHANGED <<tasks, nextId>>
       ELSE IF AddProfileFieldsMissing(body)
       THEN /\ last' = Response(arrived + 1, "add-profile", body, 400, "json",
                                [message |-> "Please provide all required fields."], 0)
            /\ UNCHANGED <<tasks, nextId>>
       ELSE IF body.files = UndefinedFiles
       THEN /\ last' = Response(arrived + 1, "add-profile", body, 500, "json",
                                [message |-> "Error creating profile",
                                 error |-> "Cannot read properties of undefined"], 0)
            /\ UNCHANGED <<tasks, nextId>>
       ELSE /\ tasks' = tasks \cup
                  {[rid |-> arrived + 1, op |-> "add-profile", pc |-> "save",
                    body |-> body, doc |-> NewProfile(nextId, body), io |-> 1]}
            /\ nextId' = nextId + 1
            /\ last' = last
    /\ UNCHANGED <<users, profiles, accounts, created>>

\* save returns: 201 with the new profile's id
AddProfileSaveReturns(t) ==
    /\ t \in tasks /\ t.op = "add-profile" /\ t.pc = "save"
    /\ tasks' = tasks \ {t}
    /\ profiles' = Append(profiles, t.doc)
    /\ last' = Response(t.rid, "add-profile", t.body, 201, "json",
                        [message |-> "Profile created successfully!",
                         profileId |-> t.doc._id], t.io)
    /\ created' = Append(created, [profileId |-> t.doc._id, body |-> t.body])
    /\ UNCHANGED <<users, nextId, arrived, accounts>>


(***************************************************************************)
(* The requests the model sends.                                           *)
(***************************************************************************)
Ann == <<"A", "n", "n">>

Lee == <<"L", "e", "e">>

EmailA == <<"a", "@", "b", ".", "c">>

EmailB == <<"d", "@", "e", ".", "f">>

NotAnEmail == <<"n", "o", "t", "-", "a", "n", "-", "e", "m", "a", "i", "l">>

EmailNoTld == <<"a", "@", "b">>

EmailWithSpace == <<"a", " ", "b", "@", "c", ".", "d">>

PwShort == <<"p", "w">>

PwOther == <<"p", "x">>

\* two passwords of 73 bytes that differ in the last byte only
PwLongX == Rep("a", BlowfishKeyBytes) \o <<"x">>

PwLongY == Rep("a", BlowfishKeyBytes) \o <<"y">>

RegisterBody(first_name, last_name, email, password) ==
    [first_name |-> first_name, last_name |-> last_name, email |-> email,
     password |-> password]

ValidRegisterBodies ==
    {RegisterBody(Ann, Lee, EmailA, PwShort),
     RegisterBody(Ann, Lee, EmailA, PwLongX),
     RegisterBody(Lee, Ann, EmailB, PwShort)}

InvalidRegisterBodies ==
    {RegisterBody(Undefined, Lee, EmailA, PwShort),
     RegisterBody(Ann, <<>>, EmailA, PwShort),
     RegisterBody(Ann, Lee, Undefined, PwShort),
     RegisterBody(Ann, Lee, EmailA, <<>>),
     RegisterBody(Ann, Lee, NotAnEmail, PwShort),
     RegisterBody(Ann, Lee, EmailNoTld, PwShort),
     RegisterBody(Ann, Lee, EmailWithSpace, PwShort)}

RegisterBodies == ValidRegisterBodies \cup InvalidRegisterBodies

LoginBody(email, password) == [email |-> email, password |-> password]

LoginBodies ==
    {LoginBody(EmailA, pw) : pw \in {PwShort, PwOther, PwLongX, PwLongY}}
    \cup {LoginBody(EmailB, PwShort), LoginBody(Undefined, PwShort),
          LoginBody(EmailA, <<>>)}

File(originalname, mimetype, buffer) ==
    [originalname |-> originalname, mimetype |-> mimetype, buffer |-> buffer]

ImageJpeg == <<"i", "m", "a", "g", "e", "/", "j", "p", "e", "g">>

ImagePng == <<"i", "m", "a", "g", "e", "/", "p", "n", "g">>

TextPlain == <<"t", "e", "x", "t", "/", "p", "l", "a", "i", "n">>

\* x.jpg, image/jpeg, three bytes that are no JPEG header
JpgFile == File(<<"x", ".", "j", "p", "g">>, ImageJpeg, <<0, 16, 131>>)

\* X.PNG, image/png, two bytes
PngFile == File(<<"X", ".", "P", "N", "G">>, ImagePng, <<137, 80>>)

\* x.txt, text/plain
TxtFile == File(<<"x", ".", "t", "x", "t">>, TextPlain, <<104, 105>>)

\* x.jpg, text/plain
JpgNamedTextFile == File(<<"x", ".", "j", "p", "g">>, TextPlain, <<104>>)

\* jpg.txt, image/jpeg: the extension is txt
TxtNamedJpegFile == File(<<"j", "p", "g", ".", "t", "x", "t">>, ImageJpeg, <<255>>)

Files(profileImage, coverImage) ==
    [profileImage |-> profileImage, coverImage |-> coverImage]

FilePairs ==
    {Files(NoFile, NoFile), Files(JpgFile, NoFile), Files(NoFile, PngFile),
     Files(JpgFile, PngFile), Files(TxtFile, NoFile), Files(JpgFile, TxtFile),
     Files(NoFile, JpgNamedTextFile), Files(TxtNamedJpegFile, NoFile)}

ProfileText(fullName, mobile, email, location, bio) ==
    [fullName |-> fullName, mobile |-> mobile, email |-> email,
     location |-> location, bio |-> bio]

Mobile == <<"0", "8", "1">>

City == <<"B", "K", "K">>

Bio == <<"h", "i">>

ValidProfileTexts ==
    {ProfileText(Ann, Mobile, EmailA, City, Bio),
     ProfileText(Lee, Mobile, EmailB, City, Bio)}

\* one of the five fields not sent, or sent empty
InvalidProfileTexts ==
    {ProfileText(Undefined, Mobile, EmailA, City, Bio),
     ProfileText(Ann, <<>>, EmailA, City, Bio),
     ProfileText(Ann, Mobile, Undefined, City, Bio),
     ProfileText(Ann, Mobile, EmailA, <<>>, Bio),
     ProfileText(Ann, Mobile, EmailA, City, Undefined),
     ProfileText(Ann, Mobile, EmailA, City, <<>>)}

AddProfileBody(text, files) ==
    [fullName |-> text.fullName, mobile |-> text.mobile, email |-> text.email,
     location |-> text.location, bio |-> text.bio, files |-> files]

\* multipart requests, and two requests with a JSON body (no req.files)
AddProfileBodies ==
    {AddProfileBody(text, files) : text \in ValidProfileTexts, files \in FilePairs}
    \cup {AddProfileBody(text, files) :
              text \in InvalidProfileTexts,
              files \in {Files(NoFile, NoFile), Files(JpgFile, TxtFile)}}
    \cup {AddProfileBody(ProfileText(Ann, Mobile, EmailA, City, Bio), UndefinedFiles),
          AddProfileBody(ProfileText(Ann, Mobile, EmailA, City, Undefined), UndefinedFiles)}

\* the smaller sets of requests of the specification of all four routes
FewRegisterBodies ==
    {RegisterBody(Ann, Lee, EmailA, PwShort), RegisterBody(Lee, Ann, EmailB, PwShort),
     RegisterBody(Ann, Lee, NotAnEmail, PwShort)}

FewLoginBodies ==
    {LoginBody(EmailA, PwShort), LoginBody(EmailA, PwOther), LoginBody(EmailA, <<>>)}

FewAddProfileBodies ==
    {AddProfileBody(ProfileText(Ann, Mobile, EmailA, City, Bio), Files(JpgFile, NoFile)),
     AddProfileBody(ProfileText(Lee, Mobile, EmailB, City, Bio), Files(NoFile, PngFile)),
     AddProfileBody(ProfileText(Ann, Mobile, EmailA, City, Undefined), Files(JpgFile, NoFile)),
     AddProfileBody(ProfileText(Ann, Mobile, EmailA, City, Bio), Files(TxtFile, NoFile))}

(***************************************************************************)
(* Specifications.  accounts and created are history variables: accounts   *)
(* holds, for each Register that responded 201, the email and password it  *)
(* submitted and the id of the user it created; created holds, for each    *)
(* Add Profile that responded 201, the request and the id it answered.     *)
(***************************************************************************)
Init ==
    /\ users = <<>>
    /\ profiles = <<>>
    /\ nextId = 1
    /\ tasks = {}
    /\ arrived = 0
    /\ last = NoResponse
    /\ accounts = {}
    /\ created = <<>>

\* all four routes, requests overlapping
Next ==
    \/ \E body \in FewRegisterBodies : Register(body)
    \/ \E t \in tasks : RegisterFindOneReturns(t)
    \/ \E t \in tasks : RegisterSaveReturns(t)
    \/ \E body \in FewLoginBodies : Login(body)
    \/ \E t \in tasks : LoginFindOneReturns(t)
    \/ \E body \in FewAddProfileBodies : AddProfile(body)
    \/ \E t \in tasks : AddProfileSaveReturns(t)
    \/ ListProfiles
    \/ \E t \in tasks : ListFindReturns(t)

Spec == Init /\ [][Next]_vars

\* register and login, requests overlapping
AuthNext ==
    \/ \E body \in RegisterBodies : Register(body)
    \/ \E t \in tasks : RegisterFindOneReturns(t)
    \/ \E t \in tasks : RegisterSaveReturns(t)
    \/ \E body \in LoginBodies : Login(body)
    \/ \E t \in tasks : LoginFindOneReturns(t)

AuthSpec == Init /\ [][AuthNext]_vars

\* a Register request arrives only when no other Register request is being handled
RegisterInTurn(body) ==
    /\ \A t \in tasks : t.op # "register"
    /\ Register(body)

\* register and login, the Register requests one after another
SeqNext ==
    \/ \E body \in RegisterBodies : RegisterInTurn(body)
    \/ \E t \in tasks : RegisterFindOneReturns(t)
    \/ \E t \in tasks : RegisterSaveReturns(t)
    \/ \E body \in LoginBodies : Login(body)
    \/ \E t \in tasks : LoginFindOneReturns(t)

SeqSpec == Init /\ [][SeqNext]_vars

\* add-profile and profiles, requests overlapping
ProfileNext ==
    \/ \E body \in AddProfileBodies : AddProfile(body)
    \/ \E t \in tasks : AddProfileSaveReturns(t)
    \/ ListProfiles
    \/ \E t \in tasks : ListFindReturns(t)

ProfileSpec == Init /\ [][ProfileNext]_vars


(***************************************************************************)
(* What the properties below say about requests and responses, stated      *)
(* apart from the handlers.                                                *)
(***************************************************************************)
\* the position of the last occurrence of c in s, 0 when there is none
LastIndexOf(s, c) ==
    IF \E i \in 1..Len(s) : s[i] = c
    THEN CHOOSE i \in 1..Len(s) : s[i] = c /\ \A j \in (i + 1)..Len(s) : s[j] # c
    ELSE 0

\* the text after the last occurrence of c in s
AfterLast(s, c) == SubSeq(s, LastIndexOf(s, c) + 1, Len(s))

AllowedTypes ==
    {<<"j", "p", "e", "g">>, <<"j", "p", "g">>, <<"p", "n", "g">>, <<"g", "i", "f">>}

\* the filename extension, compared case-insensitively, is one of the four
ExtensionAllowed(file) ==
    /\ LastIndexOf(file.originalname, ".") > 0
    /\ AfterLast(toLowerCase(file.originalname), ".") \in AllowedTypes

\* the declared MIME type is image/<one of the four>
MimeAllowed(file) ==
    /\ LastIndexOf(file.mimetype, "/") > 0
    /\ AfterLast(file.mimetype, "/") \in AllowedTypes

\* local@domain.tld: three non-empty parts without whitespace or @
LocalAtDomainDotTld(email) ==
    \E i \in 1..Len(email), j \in 1..Len(email) :
        /\ i > 1 /\ j > i + 1 /\ j < Len(email)
        /\ email[i] = "@" /\ email[j] = "."
        /\ \A k \in (1..Len(email)) \ {i} : email[k] \notin {" ", "@"}

\* a Register body that fails validation
RegisterFailsValidation(body) ==
    \/ body.first_name \in {Undefined, <<>>}
    \/ body.last_name \in {Undefined, <<>>}
    \/ body.email \in {Undefined, <<>>}
    \/ body.password \in {Undefined, <<>>}
    \/ ~LocalAtDomainDotTld(body.email)

\* some stored User has this email
EmailStored(email) == \E i \in 1..Len(users) : users[i].email = email

\* the route to which the step from the current state to the next belongs: that
\* of the task the step starts or moves on, else that of the response it sends
StepOp ==
    IF tasks' \ tasks # {}
    THEN (CHOOSE t \in tasks' \ tasks : TRUE).op
    ELSE last'.op

\* the step sends a response
Responds == last'.rid # last.rid

SextetValue(c) == CHOOSE n \in 0..63 : Base64Alphabet[n + 1] = c

\* the bytes a base64 text stands for
RECURSIVE fromBase64(_)
fromBase64(s) ==
    IF Len(s) < 4 THEN <<>>
    ELSE LET a == SextetValue(s[1])
             b == SextetValue(s[2])
         IN  IF s[3] = "="
             THEN <<a * 4 + b \div 16>>
             ELSE IF s[4] = "="
             THEN <<a * 4 + b \div 16,
                    (b % 16) * 16 + SextetValue(s[3]) \div 4>>
             ELSE <<a * 4 + b \div 16,
                    (b % 16) * 16 + SextetValue(s[3]) \div 4,
                    (SextetValue(s[3]) % 4) * 64 + SextetValue(s[4])>>
                  \o fromBase64(SubSeq(s, 5, Len(s)))

\* value is the data URI of the uploaded file, or null when none was uploaded
ImageAsSubmitted(value, file) ==
    IF file = NoFile
    THEN value = Null
    ELSE LET head == DataColon \o file.mimetype \o Base64Comma
         IN  /\ value # Null
             /\ Len(value) >= Len(head)
             /\ SubSeq(value, 1, Len(head)) = head
             /\ fromBase64(SubSeq(value, Len(head) + 1, Len(value))) = file.buffer

(***************************************************************************)
(* C1 (SeqSpec).  Register requests running one after another: a request   *)
(* with all four fields, a well-formed email and an email no stored User   *)
(* has responds 201 and adds exactly one User with that email; a request   *)
(* whose email an earlier 201 registered responds 400 and adds no User,    *)
(* with 'Email already exists' when it passes validation; and no email     *)
(* is registered by two 201 responses.                                     *)
(***************************************************************************)
C1_RegisterStep ==
    (Responds /\ last'.op = "register") =>
        LET body == last'.body
        IN  /\ (~RegisterFailsValidation(body) /\ ~EmailStored(body.email)) =>
                  /\ last'.status = 201
                  /\ Len(users') = Len(users) + 1
                  /\ SubSeq(users', 1, Len(users)) = users
                  /\ users'[Len(users')].email = body.email
            /\ (\E a \in accounts : a.email = body.email) =>
                  /\ last'.status = 400
                  /\ users' = users
                  /\ ~RegisterFailsValidation(body) =>
                         last'.out.message = "Email already exists"
            /\ last'.status = 201 => ~(\E a \in accounts : a.email = body.email)

\* C1: every step that answers a Register request is as above, and no email
\* is registered by two 201 responses
C1_RegisterOnce ==
    /\ [][C1_RegisterStep]_vars
    /\ [](\A a, b \in accounts : a.email = b.email => a = b)

C1_Witness ==
    /\ last.op = "register"
    /\ last.status = 400
    /\ last.out.message = "Email already exists"
    /\ \E a \in accounts : a.email = last.body.email

(***************************************************************************)
(* C2 (AuthSpec).  Under every interleaving of Register requests, no two   *)
(* stored Users have the same email.                                       *)
(***************************************************************************)
C2_UniqueEmail ==
    \A i, j \in 1..Len(users) : users[i].email = users[j].email => i = j

\* two requests for one email both passed the pre-check; one saved, and the
\* save of the other has returned
C2_Witness ==
    /\ last.op = "register"
    /\ last.io = 2
    /\ last.status # 201
    /\ EmailStored(last.body.email)

(***************************************************************************)
(* C3 (AuthSpec).  A Login with email and password present responds 404    *)
(* when no User has the email, 401 when the password does not verify, 200  *)
(* with the User's id and email when it does; and after Register(e, p)     *)
(* responded 201, Login(e, p) responds 200 with the id of the User that    *)
(* Register created and Login(e, p2), p2 # p, responds 401.                *)
(***************************************************************************)
C3_LoginAfterRegister ==
    (last.op = "login" /\ Truthy(last.body.email) /\ Truthy(last.body.password)) =>
        /\ ~EmailStored(last.body.email) => last.status = 404
        /\ \A i \in 1..Len(users) :
               users[i].email = last.body.email =>
                   IF compareSync(last.body.password, users[i].password)
                   THEN /\ last.status = 200
                        /\ last.out.id = users[i]._id
                        /\ last.out.email = users[i].email
                        /\ last.out.success
                   ELSE last.status = 401
        /\ \A a \in accounts :
               a.email = last.body.email =>
                   IF last.body.password = a.password
                   THEN last.status = 200 /\ last.out.id = a.id
                   ELSE last.status = 401

(***************************************************************************)
(* C4 (AuthSpec).  A Register request that fails validation responds 400   *)
(* with no storage call issued, and the step leaves both stores as they    *)
(* were; no request that fails validation ever waits on a storage call.    *)
(***************************************************************************)
C4_ValidationStep ==
    (Responds /\ last'.op = "register" /\ RegisterFailsValidation(last'.body)) =>
        /\ users' = users
        /\ profiles' = profiles
        /\ tasks' = tasks

\* C4: a Register request that fails validation is answered 400 with no
\* storage call and no change of the stores, and never waits on storage
C4_ValidationBeforeStorage ==
    /\ [][C4_ValidationStep]_vars
    /\ []((last.op = "register" /\ RegisterFailsValidation(last.body)) =>
              (last.status = 400 /\ last.io = 0))
    /\ [](\A t \in tasks : t.op = "register" => ~RegisterFailsValidation(t.body))

C4_Witness ==
    /\ last.op = "register"
    /\ last.body.email = NotAnEmail
    /\ last.status = 400
    /\ Len(users) > 0

(***************************************************************************)
(* C5 (ProfileSpec).  An Add Profile request that does not respond 201     *)
(* issued no save; a request with one of the five fields missing or empty  *)
(* responds 400 and issued no save; a request with a rejected file part    *)
(* issued no save.                                                         *)
(***************************************************************************)
C5_NoWriteUnless201 ==
    last.op = "add-profile" =>
        /\ last.status # 201 => last.io = 0
        /\ AddProfileFieldsMissing(last.body) => (last.status = 400 /\ last.io = 0)
        /\ (\E f \in FileParts(last.body) : ~fileFilter(f)) => last.io = 0

(***************************************************************************)
(* C6 (ProfileSpec).  The file filter lets a request through to the        *)
(* handler only if, for every file part, both the extension and the MIME   *)
(* type are among jpeg, jpg, png, gif; x.txt with text/plain is rejected   *)
(* and x.jpg with image/jpeg is accepted.                                  *)
(***************************************************************************)
C6_FilterPolicy ==
    last.op = "add-profile" =>
        /\ last.type = "json" =>
               \A f \in FileParts(last.body) : ExtensionAllowed(f) /\ MimeAllowed(f)
        /\ TxtFile \in FileParts(last.body) => last.type = "html"
        /\ FileParts(last.body) = {JpgFile} => last.type = "json"

(***************************************************************************)
(* C7 (ProfileSpec).  An Add Profile request with a file part the filter   *)
(* rejects ends with status 400 and a JSON body.                           *)
(***************************************************************************)
C7_RejectedFileIs400 ==
    (last.op = "add-profile" /\ \E f \in FileParts(last.body) : ~fileFilter(f)) =>
        (last.status = 400 /\ last.type = "json")

(***************************************************************************)
(* C8 (ProfileSpec).  Every List Profiles response holds each profile      *)
(* whose Add Profile responded 201, under the id that response gave, with  *)
(* the five text fields as submitted and, for profileImage and coverImage  *)
(* each, the data URI of the MIME type and bytes uploaded under that name, *)
(* or null when no file was uploaded under that name.                      *)
(***************************************************************************)
C8_RoundTrip ==
    last.op = "list" =>
        \A k \in 1..Len(created) :
            \E i \in 1..Len(last.out.array) :
                LET item == last.out.array[i]
                    body == created[k].body
                IN  /\ item._id = created[k].profileId
                    /\ item.fullName = body.fullName
                    /\ item.mobile = body.mobile
                    /\ item.email = body.email
                    /\ item.location = body.location
                    /\ item.bio = body.bio
                    /\ ImageAsSubmitted(item.profileImage, body.files.profileImage)
                    /\ ImageAsSubmitted(item.coverImage, body.files.coverImage)

\* a list that holds a profile with only a profile image and one with only a cover image
C8_Witness ==
    /\ last.op = "list"
    /\ \E k \in 1..Len(created) :
           /\ created[k].body.files.profileImage = JpgFile
           /\ created[k].body.files.coverImage = NoFile
    /\ \E k \in 1..Len(created) :
           /\ created[k].body.files.profileImage = NoFile
           /\ created[k].body.files.coverImage = PngFile

(***************************************************************************)
(* C9 (AuthSpec).  A Register request that passes validation and fails     *)
(* because a stored User has its email responds 400.                       *)
(***************************************************************************)
C9_DuplicateIs400 ==
    (/\ last.op = "register"
     /\ ~RegisterFailsValidation(last.body)
     /\ last.status # 201
     /\ EmailStored(last.body.email)) => last.status = 400

(***************************************************************************)
(* C10 (Spec).  No step changes or removes a stored User; a User that a    *)
(* step adds holds the digest of the password its Register submitted and   *)
(* not the password; steps of Login and List Profiles change neither       *)
(* store, steps of Register leave the profiles alone, and steps of Add     *)
(* Profile leave the users and the existing profiles alone.                *)
(***************************************************************************)
C10_FrameStep ==
    /\ Len(users') >= Len(users)
    /\ SubSeq(users', 1, Len(users)) = users
    /\ \A i \in (Len(users) + 1)..Len(users') :
           \E t \in tasks :
               /\ t.op = "register"
               /\ users'[i].email = t.body.email
               /\ users'[i].password # t.body.password
               /\ compareSync(t.body.password, users'[i].password)
    /\ StepOp \in {"login", "list"} => (users' = users /\ profiles' = profiles)
    /\ StepOp = "register" => profiles' = profiles
    /\ StepOp = "add-profile" =>
           /\ users' = users
           /\ Len(profiles') >= Len(profiles)
           /\ SubSeq(profiles', 1, Len(profiles)) = profiles

\* C10: every step keeps the frame above
C10_Frame == [][C10_FrameStep]_vars

\* a Login has been answered while both stores hold a document
C10_Witness ==
    /\ last.op = "login"
    /\ Len(users) > 0
    /\ Len(profiles) > 0

====
